---- MODULE Spec2Model ----
(***************************************************************************)
(* Model of the RFC 8181 publication message envelope codec                *)
(* (src/publication/pubmsg.rs): Message::decode, Message::decode_query,    *)
(* Message::decode_reply and Message::encode_vec, driven the way the unit  *)
(* tests drive them: decode, encode, decode again, encode again.           *)
(*                                                                         *)
(* A document (the bytes) is a record [root, attrs, body]: the name of the *)
(* root element, its attributes as written (an ordered list of key/value   *)
(* pairs, the xmlns declaration included) and the content of the root      *)
(* element as a sequence of tokens: child elements [name, val] (val = 0:   *)
(* no attributes, val > 0: carries uri = val) and whitespace.              *)
(***************************************************************************)
EXTENDS Integers, Sequences, FiniteSets, TLC

\* ---------------------------------------------------------------- bounds
MaxBody  == 2    \* tokens inside <msg> of an input document
MaxVal   == 1    \* distinct uri values an element can carry
MaxElems == 2    \* elements of a payload composed by the application

\* ------------------------------------------------------------- constants
VERSION == "4"
NS == "http://www.hactrn.net/uris/rpki/publication-spec/"

\* ------------------------------------------------------------ the inputs
WS == [name |-> "ws", val |-> 0]
TagNames == {"list", "publish", "withdraw", "success", "report_error", "delete"}
Tokens == {WS} \cup [name : TagNames, val : 0..MaxVal]
Bodies(n) == UNION {[1..k -> Tokens] : k \in 0..n}

Versions == {"4", "3", "", "04"}
Types == {"query", "reply", "notify"}
AttrKeys == {"xmlns", "version", "type", "foo"}
AttrPairs == {<<"xmlns", NS>>, <<"foo", "bar">>}
             \cup {<<"version", v>> : v \in Versions}
             \cup {<<"type", t>> : t \in Types}
\* well-formed XML: no attribute name occurs twice on an element
AttrLists == {s \in UNION {[1..k -> AttrPairs] : k \in 0..Cardinality(AttrKeys)} :
                \A i, j \in DOMAIN s : s[i][1] = s[j][1] => i = j}
GoodAttrLists == UNION {{<<<<"xmlns", NS>>, <<"version", VERSION>>, <<"type", t>>>>,
                         <<<<"version", VERSION>>, <<"type", t>>>>} : t \in {"query", "reply"}}

\* any envelope around a short body, and a valid envelope around any body
Docs == [root : {"msg", "other"}, attrs : AttrLists, body : Bodies(1)]
        \cup [root : {"msg"}, attrs : GoodAttrLists, body : Bodies(MaxBody)]

\* ----------------------------------------------------------- the values
NonEmptySeqs(S, n) == UNION {[1..k -> S] : k \in 1..n}
PublishElements == [kind : {"Publish", "Withdraw"}, uri : 1..MaxVal]
ListElements == [uri : 1..MaxVal]

\* enum Message: a variant and its payload
Message(v, p) == [variant |-> v, payload |-> p]
Messages ==
    {Message("ListQuery", <<>>), Message("SuccessReply", <<>>)}
    \cup {Message("PublishQuery", p) : p \in NonEmptySeqs(PublishElements, MaxElems)}
    \cup {Message("ListReply", p) : p \in NonEmptySeqs(ListElements, MaxElems)}

\* enum MessageError
NoErr == [kind |-> "none", sub |-> "", arg |-> ""]
InvalidVersion == [kind |-> "InvalidVersion", sub |-> "", arg |-> ""]
UnknownMessageType == [kind |-> "UnknownMessageType", sub |-> "", arg |-> ""]
UnexpectedStart(n) == [kind |-> "UnexpectedStart", sub |-> "", arg |-> n]
ExpectedStart(s) == [kind |-> "ExpectedStart", sub |-> "", arg |-> s]
XmlReadError(e) == [kind |-> "XmlReadError", sub |-> e, arg |-> ""]
XmlAttributesError(e, key) == [kind |-> "XmlAttributesError", sub |-> e, arg |-> key]

\* Result<Message, MessageError>, a panic, or nothing returned yet
NoMsg == [variant |-> "none", payload |-> <<>>]
None == [tag |-> "none", msg |-> NoMsg, err |-> NoErr]
Ok(m) == [tag |-> "ok", msg |-> m, err |-> NoErr]
Err(e) == [tag |-> "err", msg |-> NoMsg, err |-> e]
Panic == [tag |-> "panic", msg |-> NoMsg, err |-> NoErr]

\* ------------------------------------------- remote::xml (collaborators)
\* the attributes the reader hands to the closure: namespace declarations
\* are not among them
ReaderAttributes(d) == SelectSeq(d.attrs, LAMBDA p : p[1] # "xmlns")
\* the start tags the reader sees inside the root: whitespace is skipped
ReaderEvents(d) == SelectSeq(d.body, LAMBDA t : t.name # "ws")

HasKey(attrs, k) == \E i \in DOMAIN attrs : attrs[i][1] = k
ValueOf(attrs, k) == attrs[CHOOSE i \in DOMAIN attrs : attrs[i][1] = k][2]
Without(attrs, k) == SelectSeq(attrs, LAMBDA p : p[1] # k)

\* Attributes::take_req
take_req(attrs, k) ==
    IF HasKey(attrs, k)
    THEN [ok |-> TRUE, value |-> ValueOf(attrs, k), rest |-> Without(attrs, k), err |-> NoErr]
    ELSE [ok |-> FALSE, value |-> "", rest |-> attrs,
          err |-> XmlAttributesError("MissingAttribute", k)]

\* Attributes::exhausted
exhausted(attrs) ==
    IF attrs = <<>> THEN [ok |-> TRUE, err |-> NoErr]
    ELSE [ok |-> FALSE, err |-> XmlAttributesError("ExtraAttributes", "")]

\* ------------------------------------------ payload types (collaborators)
POk(p, rest) == [ok |-> TRUE, payload |-> p, rest |-> rest, err |-> NoErr]
PErr(e, rest) == [ok |-> FALSE, payload |-> <<>>, rest |-> rest, err |-> e]

\* one empty element of the given name
EmptyElementDecode(r, name) ==
    IF r = <<>> THEN PErr(XmlReadError("ExpectedStart"), r)
    ELSE IF Head(r).name # name THEN PErr(XmlReadError("ExpectedNamedStart"), r)
    ELSE IF Head(r).val # 0 THEN PErr(XmlAttributesError("ExtraAttributes", ""), r)
    ELSE POk(<<>>, Tail(r))

\* every remaining element, each of an allowed name and carrying a uri
ElementListDecode(r, names) ==
    LET bad == {i \in DOMAIN r : r[i].name \notin names \/ r[i].val = 0}
    IN  IF bad = {}
        THEN POk(r, <<>>)
        ELSE LET i == CHOOSE x \in bad : \A y \in bad : x <= y
             IN  IF r[i].name \notin names
                 THEN PErr(UnexpectedStart(r[i].name), SubSeq(r, i, Len(r)))
                 ELSE PErr(XmlAttributesError("MissingAttribute", "uri"), SubSeq(r, i, Len(r)))

ListQueryDecode(r) == EmptyElementDecode(r, "list")
SuccessReplyDecode(r) == EmptyElementDecode(r, "success")
PublishQueryDecode(r) ==
    LET p == ElementListDecode(r, {"publish", "withdraw"})
    IN  [p EXCEPT !.payload =
           [i \in DOMAIN p.payload |->
              [kind |-> IF p.payload[i].name = "publish" THEN "Publish" ELSE "Withdraw",
               uri |-> p.payload[i].val]]]
ListReplyDecode(r) ==
    LET p == ElementListDecode(r, {"list"})
    IN  [p EXCEPT !.payload = [i \in DOMAIN p.payload |-> [uri |-> p.payload[i].val]]]

PayloadDecode(v, r) ==
    CASE v = "ListQuery" -> ListQueryDecode(r)
      [] v = "PublishQuery" -> PublishQueryDecode(r)
      [] v = "SuccessReply" -> SuccessReplyDecode(r)
      [] v = "ListReply" -> ListReplyDecode(r)

ListQueryEncode(p) == <<[name |-> "list", val |-> 0]>>
SuccessReplyEncode(p) == <<[name |-> "success", val |-> 0]>>
PublishQueryEncode(p) ==
    [i \in DOMAIN p |-> [name |-> IF p[i].kind = "Publish" THEN "publish" ELSE "withdraw",
                         val |-> p[i].uri]]
ListReplyEncode(p) == [i \in DOMAIN p |-> [name |-> "list", val |-> p[i].uri]]

PayloadEncode(v, p) ==
    CASE v = "ListQuery" -> ListQueryEncode(p)
      [] v = "PublishQuery" -> PublishQueryEncode(p)
      [] v = "SuccessReply" -> SuccessReplyEncode(p)
      [] v = "ListReply" -> ListReplyEncode(p)

\* ------------------------------------------------- Message (pubmsg.rs)
\* decode: match a.take_req("version")?.as_ref() { VERSION => {}, _ => Err }
VersionAcceptedMut(v) == v \in {VERSION, "04"}
VersionAccepted(v) == v = VERSION

\* decode: match msg_type.as_ref() { "query" | "reply" | _ }
MatchTypeMut(t) ==
    CASE t = "query" -> "query"
      [] t = "reply" -> "reply"
      [] OTHER -> "query"
MatchType(t) ==
    CASE t = "query" -> "query"
      [] t = "reply" -> "reply"
      [] OTHER -> "unknown"

\* decode_query: the payload decoder chosen for a start tag name
QueryDispatch(n) ==
    CASE n = "list" -> "ListQuery"
      [] n \in {"publish", "withdraw"} -> "PublishQuery"
      [] OTHER -> "none"

\* decode_reply: the payload decoder chosen for a start tag name
ReplyDispatchMut(n) ==
    CASE n = "success" -> "SuccessReply"
      [] n = "list" -> "ListQuery"
      [] n = "report_error" -> "unimplemented"
      [] OTHER -> "none"
ReplyDispatch(n) ==
    CASE n = "success" -> "SuccessReply"
      [] n = "list" -> "ListReply"
      [] n = "report_error" -> "unimplemented"
      [] OTHER -> "none"

\* encode_vec: let msg_type = match self { ... }
MsgTypeOfMut(v) ==
    CASE v \in {"PublishQuery"} -> "query"
      [] v \in {"SuccessReply", "ListReply", "ListQuery"} -> "reply"
MsgTypeOf(v) ==
    CASE v \in {"PublishQuery", "ListQuery"} -> "query"
      [] v \in {"SuccessReply", "ListReply"} -> "reply"

\* encode_vec: let a = [("xmlns", NS), ("version", VERSION), ("type", msg_type)]
EnvelopeAttrsMut(t) == <<<<"version", VERSION>>, <<"xmlns", NS>>, <<"type", t>>>>
EnvelopeAttrs(t) == <<<<"xmlns", NS>>, <<"version", VERSION>>, <<"type", t>>>>

\* encode_vec: the payload encoder matched on self
PayloadEncoderOfMut(v) == IF v = "ListQuery" THEN "SuccessReply" ELSE v
PayloadEncoderOf(v) == v

\* ---------------------------------------------------------------- state
VARIABLES
    pc,         \* position of the driver: inside decode, between calls, finished
    stage,      \* 1: first decode/encode, 2: decode/encode of the encoder's output
    origin,     \* "bytes": the run starts from a document, "value": from a Message
    input,      \* the document being decoded
    a,          \* the Attributes of the root element, as far as not taken
    msg_type,   \* the local msg_type of decode
    r,          \* the start tags the reader has not consumed yet
    first,      \* what next_start_name returned ("" before the call, "none" for None)
    peeked,     \* calls of next_start_name in the current decode
    dispatched, \* payload decoder invoked in the current decode
    ret,        \* what the closure passed to take_named_element returned
    result,     \* what Message::decode returned
    m1,         \* the Message the first encode was given
    b1,         \* the bytes the first encode returned
    out,        \* the bytes the last encode returned
    encCalls    \* payload encoders invoked by the last encode

vars == <<pc, stage, origin, input, a, msg_type, r, first, peeked, dispatched,
          ret, result, m1, b1, out, encCalls>>

NoDoc == [root |-> "", attrs |-> <<>>, body |-> <<>>]

Init ==
    /\ stage = 1
    /\ a = <<>> /\ msg_type = "" /\ r = <<>> /\ first = "" /\ peeked = 0
    /\ dispatched = "none" /\ ret = None
    /\ b1 = NoDoc /\ out = NoDoc /\ encCalls = <<>>
    /\ \/ /\ origin = "bytes" /\ input \in Docs /\ pc = "start"
          /\ result = None /\ m1 = NoMsg
       \/ /\ origin = "value" /\ input = NoDoc /\ pc = "decoded"
          /\ \E m \in Messages : result = Ok(m) /\ m1 = m

\* decode returns e
Fail(e) == /\ result' = Err(e)
           /\ pc' = "failed"

\* XmlReader::decode / take_named_element("msg", ...): the start of the root
TakeNamedElement ==
    /\ pc = "start"
    /\ IF input.root # "msg"
       THEN /\ Fail(XmlReadError("ExpectedNamedStart"))
            /\ UNCHANGED <<a, r>>
       ELSE /\ a' = ReaderAttributes(input)
            /\ r' = ReaderEvents(input)
            /\ pc' = "version"
            /\ UNCHANGED result
    /\ UNCHANGED <<stage, origin, input, msg_type, first, peeked, dispatched, ret,
                   m1, b1, out, encCalls>>

\* match a.take_req("version")?.as_ref() { VERSION => {}, _ => return Err(InvalidVersion) }
DecodeVersionMut ==
    /\ pc = "version"
    /\ LET t == take_req(a, "version")
           u == take_req(t.rest, "type")
       IN  /\ a' = t.rest
           /\ IF ~t.ok THEN Fail(t.err)
              ELSE IF ~u.ok THEN Fail(u.err)
              ELSE IF ~VersionAccepted(t.value) THEN Fail(InvalidVersion)
              ELSE pc' = "type" /\ UNCHANGED result
    /\ UNCHANGED <<stage, origin, input, msg_type, r, first, peeked, dispatched, ret,
                   m1, b1, out, encCalls>>
DecodeVersion ==
    /\ pc = "version"
    /\ LET t == take_req(a, "version")
       IN  /\ a' = t.rest
           /\ IF ~t.ok THEN Fail(t.err)
              ELSE IF ~VersionAccepted(t.value) THEN Fail(InvalidVersion)
              ELSE pc' = "type" /\ UNCHANGED result
    /\ UNCHANGED <<stage, origin, input, msg_type, r, first, peeked, dispatched, ret,
                   m1, b1, out, encCalls>>

\* let msg_type = a.take_req("type")?;
DecodeTypeMut ==
    /\ pc = "type"
    /\ LET t == take_req(a, "type")
       IN  /\ a' = t.rest
           /\ pc' = "exhausted" /\ msg_type' = t.value /\ UNCHANGED result
    /\ UNCHANGED <<stage, origin, input, r, first, peeked, dispatched, ret,
                   m1, b1, out, encCalls>>
DecodeType ==
    /\ pc = "type"
    /\ LET t == take_req(a, "type")
       IN  /\ a' = t.rest
           /\ IF ~t.ok THEN Fail(t.err) /\ UNCHANGED msg_type
              ELSE pc' = "exhausted" /\ msg_type' = t.value /\ UNCHANGED result
    /\ UNCHANGED <<stage, origin, input, r, first, peeked, dispatched, ret,
                   m1, b1, out, encCalls>>

\* a.exhausted()?;
DecodeExhaustedMut ==
    /\ pc = "exhausted"
    /\ pc' = "match"
    /\ UNCHANGED <<stage, origin, input, a, msg_type, r, first, peeked, dispatched, ret,
                   result, m1, b1, out, encCalls>>
DecodeExhausted ==
    /\ pc = "exhausted"
    /\ LET t == exhausted(a)
       IN  IF ~t.ok THEN Fail(t.err) ELSE pc' = "match" /\ UNCHANGED result
    /\ UNCHANGED <<stage, origin, input, a, msg_type, r, first, peeked, dispatched, ret,
                   m1, b1, out, encCalls>>

\* match msg_type.as_ref() { "query" => .., "reply" => .., _ => Err(UnknownMessageType) }
DecodeMatchType ==
    /\ pc = "match"
    /\ LET t == MatchType(msg_type)
       IN  IF t = "unknown" THEN Fail(UnknownMessageType) ELSE pc' = t /\ UNCHANGED result
    /\ UNCHANGED <<stage, origin, input, a, msg_type, r, first, peeked, dispatched, ret,
                   m1, b1, out, encCalls>>

\* the body of decode_query and decode_reply after the dispatch table
Dispatch(t) ==
    /\ peeked' = peeked + 1
    /\ IF r = <<>>
       THEN /\ first' = "none"
            /\ ret' = Err(ExpectedStart(IF t = "query" THEN "list, publish, or withdraw"
                                         ELSE "success, list, or report_error"))
            /\ pc' = "close"
            /\ UNCHANGED <<r, dispatched>>
       ELSE LET n == Head(r).name
                d == IF t = "query" THEN QueryDispatch(n) ELSE ReplyDispatch(n)
            IN  /\ first' = n
                /\ CASE d = "none" ->
                          /\ ret' = Err(UnexpectedStart(n))
                          /\ pc' = "close"
                          /\ UNCHANGED <<r, dispatched>>
                     [] d = "unimplemented" ->
                          /\ ret' = Panic
                          /\ pc' = "close"
                          /\ UNCHANGED <<r, dispatched>>
                     [] OTHER ->
                          LET p == PayloadDecode(d, r)
                          IN  /\ dispatched' = d
                              /\ r' = p.rest
                              /\ ret' = IF p.ok THEN Ok(Message(d, p.payload)) ELSE Err(p.err)
                              /\ pc' = "close"
    /\ UNCHANGED <<stage, origin, input, a, msg_type, result, m1, b1, out, encCalls>>

\* Message::decode_query
decode_query ==
    /\ pc = "query"
    /\ Dispatch("query")

\* Message::decode_reply
decode_reply ==
    /\ pc = "reply"
    /\ Dispatch("reply")

\* take_named_element / XmlReader::decode after the closure: an error or a panic
\* of the closure goes to the caller, otherwise the root element must end here
DecodeClose ==
    /\ pc = "close"
    /\ CASE ret.tag = "panic" -> result' = Panic /\ pc' = "panicked"
         [] ret.tag = "err" -> Fail(ret.err)
         [] OTHER -> IF r # <<>> THEN Fail(XmlReadError("ExpectedClose"))
                     ELSE result' = ret /\ pc' = "decoded"
    /\ UNCHANGED <<stage, origin, input, a, msg_type, r, first, peeked, dispatched, ret,
                   m1, b1, out, encCalls>>

\* Message::encode_vec, applied to the Message at hand
encode_vec ==
    /\ pc = "decoded"
    /\ LET m == result.msg
           e == PayloadEncoderOf(m.variant)
           bytes == [root |-> "msg",
                     attrs |-> EnvelopeAttrs(MsgTypeOf(m.variant)),
                     body |-> PayloadEncode(e, m.payload)]
       IN  /\ out' = bytes
           /\ encCalls' = <<e>>
           /\ IF stage = 1
              THEN b1' = bytes /\ m1' = m /\ pc' = "encoded"
              ELSE pc' = "done" /\ UNCHANGED <<b1, m1>>
    /\ UNCHANGED <<stage, origin, input, a, msg_type, r, first, peeked, dispatched, ret,
                   result>>

\* the tests: Message::decode(encoded.as_bytes())
Redecode ==
    /\ pc = "encoded"
    /\ stage = 1
    /\ stage' = 2
    /\ input' = out
    /\ pc' = "start"
    /\ a' = <<>> /\ msg_type' = "" /\ r' = <<>> /\ first' = "" /\ peeked' = 0
    /\ dispatched' = "none" /\ ret' = None /\ result' = None
    /\ UNCHANGED <<origin, m1, b1, out, encCalls>>

Next ==
    \/ TakeNamedElement
    \/ DecodeVersion
    \/ DecodeType
    \/ DecodeExhausted
    \/ DecodeMatchType
    \/ decode_query
    \/ decode_reply
    \/ DecodeClose
    \/ encode_vec
    \/ Redecode

Spec == Init /\ [][Next]_vars

TypeOK ==
    /\ pc \in {"start", "version", "type", "exhausted", "match", "query", "reply",
               "close", "decoded", "encoded", "failed", "panicked", "done"}
    /\ stage \in {1, 2}
    /\ result.tag \in {"none", "ok", "err", "panic"}

\* ------------------------------------------------------------ properties
\* the document being decoded, as written
InHas(k) == HasKey(input.attrs, k)
InVal(k) == ValueOf(input.attrs, k)
\* attributes of the root besides version and type
Further == {i \in DOMAIN input.attrs : input.attrs[i][1] \notin {"version", "type"}}
\* the same, the xmlns namespace declaration not counted
FurtherNoNs == {i \in Further : input.attrs[i][1] # "xmlns"}
Returned == input.root = "msg" /\ result.tag # "none"
InFirst == IF ReaderEvents(input) = <<>> THEN "none" ELSE Head(ReaderEvents(input)).name
QueryVariants == {"PublishQuery", "ListQuery"}
ReplyVariants == {"SuccessReply", "ListReply"}

\* C1: a Message m returned by a successful decode, encoded and decoded again,
\* decodes successfully to a Message equal to m (same variant, equal payload).
C1_ValueRoundTrip ==
    (origin = "bytes" /\ stage = 2 /\ result.tag # "none")
        => /\ result.tag = "ok"
           /\ result.msg.variant = m1.variant
           /\ result.msg = m1
C1_Witness ==
    /\ origin = "bytes" /\ stage = 2 /\ pc = "decoded"
    /\ m1.variant = "PublishQuery" /\ Len(m1.payload) = 2
    /\ input # NoDoc /\ result.msg = m1

C3_VersionRejection ==
    (input.root = "msg" /\ InHas("version") /\ InVal("version") # "4")
        => /\ pc \in {"start", "version", "failed"}
           /\ result.tag \in {"none", "err"}
           /\ result.tag = "err" => result.err = InvalidVersion
C3_Witness ==
    /\ pc = "failed" /\ input.root = "msg"
    /\ InHas("version") /\ InVal("version") = "04"
    /\ InHas("type") /\ InVal("type") = "query"
    /\ input.body # <<>>
    /\ result.err = InvalidVersion

\* C4 as stated: a msg element whose type attribute is neither "query" nor
\* "reply" fails with UnknownMessageType.
C4_Original ==
    (Returned /\ InHas("type") /\ InVal("type") \notin {"query", "reply"})
        => result = Err(UnknownMessageType)
\* C4 as amended: a msg element with version "4", a type attribute that is
\* neither "query" nor "reply" and no attribute besides version, type and the
\* xmlns declaration fails with UnknownMessageType, and its content is not read.
C4_TypeRejection ==
    (input.root = "msg" /\ InHas("version") /\ InVal("version") = "4"
       /\ InHas("type") /\ InVal("type") \notin {"query", "reply"} /\ FurtherNoNs = {})
        => /\ result.tag \in {"none", "err"}
           /\ result.tag = "err" => result.err = UnknownMessageType
           /\ pc \in {"start", "version", "type", "exhausted", "match", "failed"}
           /\ peeked = 0
C4_Witness ==
    /\ pc = "failed" /\ input.root = "msg"
    /\ InHas("type") /\ InVal("type") = "notify"
    /\ input.body # <<>>
    /\ result.err = UnknownMessageType

\* C5 as stated: a msg element lacking version or lacking type fails with
\* XmlAttributesError naming the missing key, whatever the other attribute is.
C5_Original ==
    (Returned /\ (~InHas("version") \/ ~InHas("type")))
        => /\ result.tag = "err"
           /\ result.err.kind = "XmlAttributesError"
           /\ result.err.sub = "MissingAttribute"
           /\ result.err.arg \in {k \in {"version", "type"} : ~InHas(k)}
\* C5 as amended: a msg element lacking version fails with the missing-attribute
\* error naming version whatever else it carries; one lacking type fails with
\* the missing-attribute error naming type provided its version is "4".
C5_MissingAttribute ==
    /\ (Returned /\ ~InHas("version"))
          => result = Err(XmlAttributesError("MissingAttribute", "version"))
    /\ (Returned /\ InHas("version") /\ InVal("version") = "4" /\ ~InHas("type"))
          => result = Err(XmlAttributesError("MissingAttribute", "type"))
    /\ (input.root = "msg" /\ (~InHas("version") \/ ~InHas("type")))
          => pc \in {"start", "version", "type", "failed"}
C5_Witness ==
    /\ pc = "failed" /\ input.root = "msg"
    /\ InHas("version") /\ InVal("version") = "4" /\ ~InHas("type")
    /\ result.err = XmlAttributesError("MissingAttribute", "type")

\* C6 as stated: a msg element with version "4", a type attribute and at least
\* one further attribute fails with the unexpected-attribute error and its
\* payload is never dispatched.
C6_Original ==
    (input.root = "msg" /\ InHas("version") /\ InVal("version") = "4"
       /\ InHas("type") /\ Further # {})
        => /\ result.tag \in {"none", "err"}
           /\ result.tag = "err" => result.err = XmlAttributesError("ExtraAttributes", "")
           /\ peeked = 0 /\ dispatched = "none"
\* C6 as amended: a msg element with version "4", a type attribute and at least
\* one further attribute other than the xmlns namespace declaration fails with
\* the unexpected-attribute error; the content is never read, no payload
\* decoder is dispatched and no Message is returned.
C6_NoExtraAttributes ==
    (input.root = "msg" /\ InHas("version") /\ InVal("version") = "4"
       /\ InHas("type") /\ FurtherNoNs # {})
        => /\ result.tag \in {"none", "err"}
           /\ result.tag = "err" => result.err = XmlAttributesError("ExtraAttributes", "")
           /\ pc \in {"start", "version", "type", "exhausted", "failed"}
           /\ peeked = 0 /\ dispatched = "none" /\ ret = None
C6_Witness ==
    /\ pc = "failed" /\ input.root = "msg"
    /\ InHas("version") /\ InVal("version") = "4"
    /\ InHas("type") /\ InVal("type") = "query"
    /\ InHas("foo") /\ InHas("xmlns")
    /\ InFirst = "list"
    /\ result.err = XmlAttributesError("ExtraAttributes", "")

\* C7: with version "4" and no extra attribute, what decode_query and
\* decode_reply return is fixed by the type and the name n of the first start
\* tag in msg: (query, list) -> ListQuery, (query, publish | withdraw) ->
\* PublishQuery, (reply, success) -> SuccessReply, (reply, list) -> ListReply,
\* each wrapping what that payload decoder returns or passing on its error;
\* any other n (report_error in a reply aside) -> UnexpectedStart(n); no start
\* tag -> ExpectedStart. An error of the two goes to the caller unchanged, and
\* decode never returns a reply variant for a query or the reverse.
C7_Expected(t, n) ==
    CASE t = "query" /\ n = "list" -> "ListQuery"
      [] t = "query" /\ n = "publish" -> "PublishQuery"
      [] t = "query" /\ n = "withdraw" -> "PublishQuery"
      [] t = "reply" /\ n = "success" -> "SuccessReply"
      [] t = "reply" /\ n = "list" -> "ListReply"
      [] OTHER -> "none"
C7_TagDispatch ==
    (input.root = "msg" /\ InHas("version") /\ InVal("version") = "4"
       /\ InHas("type") /\ InVal("type") \in {"query", "reply"} /\ FurtherNoNs = {}
       /\ pc \notin {"start", "version", "type", "exhausted", "match", "query", "reply"})
        => LET t == InVal("type")
               n == InFirst
               d == C7_Expected(t, n)
           IN  /\ peeked = 1 /\ first = n
               /\ n = "none" => (ret.tag = "err" /\ ret.err.kind = "ExpectedStart"
                                 /\ dispatched = "none")
               /\ (n # "none" /\ d = "none" /\ ~(t = "reply" /\ n = "report_error"))
                     => (ret = Err(UnexpectedStart(n)) /\ dispatched = "none")
               /\ d # "none"
                     => /\ dispatched = d
                        /\ LET p == PayloadDecode(d, ReaderEvents(input))
                           IN  ret = IF p.ok THEN Ok(Message(d, p.payload)) ELSE Err(p.err)
               /\ (result.tag = "err" /\ ret.tag = "err") => result.err = ret.err
               /\ result.tag = "ok"
                     => /\ result = ret
                        /\ t = "query" => result.msg.variant \in QueryVariants
                        /\ t = "reply" => result.msg.variant \in ReplyVariants
C7_Witness ==
    /\ stage = 1 /\ origin = "bytes" /\ pc = "decoded"
    /\ InVal("type") = "query" /\ first = "withdraw"
    /\ result.msg.variant = "PublishQuery" /\ Len(result.msg.payload) = 2

\* C8: encode_vec writes one root element msg with exactly the attributes
\* xmlns, version, type in this order, xmlns the publication namespace,
\* version "4", type "query" for PublishQuery and ListQuery and "reply" for
\* SuccessReply and ListReply; it invokes one payload encoder, once, that of
\* the Message's own variant, whose output is the content of msg.
C8_EncodeEnvelope ==
    pc \in {"encoded", "done"}
        => LET m == result.msg
           IN  /\ result.tag = "ok"
               /\ out.root = "msg"
               /\ out.attrs =
                    << <<"xmlns", "http://www.hactrn.net/uris/rpki/publication-spec/">>,
                       <<"version", "4">>,
                       <<"type", IF m.variant \in QueryVariants THEN "query" ELSE "reply">> >>
               /\ m.variant \in QueryVariants \cup ReplyVariants
               /\ encCalls = <<m.variant>>
               /\ out.body = PayloadEncode(m.variant, m.payload)
C8_Witness ==
    /\ pc = "encoded" /\ origin = "value" /\ stage = 1
    /\ result.msg.variant = "SuccessReply"
    /\ out.attrs[3] = <<"type", "reply">>

\* C9: decode ends, for every input, by returning Ok(Message) or
\* Err(MessageError); in particular a reply whose first child is report_error
\* ends in an error value.
C9_AlwaysReturns ==
    /\ pc # "panicked"
    /\ result.tag # "panic"
    /\ ret.tag # "panic"

\* C10: the envelope checks run in the order version present, version is "4",
\* type present, no attribute left, type is query or reply, and decode returns
\* the error of the first one that fails; next_start_name is called only when
\* all five pass, and then once.
C10_FirstFailure ==
    IF ~InHas("version") THEN XmlAttributesError("MissingAttribute", "version")
    ELSE IF InVal("version") # "4" THEN InvalidVersion
    ELSE IF ~InHas("type") THEN XmlAttributesError("MissingAttribute", "type")
    ELSE IF FurtherNoNs # {} THEN XmlAttributesError("ExtraAttributes", "")
    ELSE IF InVal("type") \notin {"query", "reply"} THEN UnknownMessageType
    ELSE NoErr
C10_ErrorPrecedence ==
    input.root = "msg"
        => /\ C10_FirstFailure # NoErr
                => /\ peeked = 0 /\ first = "" /\ dispatched = "none"
                   /\ result.tag \in {"none", "err"}
                   /\ result.tag = "err" => result.err = C10_FirstFailure
           /\ peeked > 0 => (C10_FirstFailure = NoErr /\ peeked = 1)
           /\ (C10_FirstFailure = NoErr /\ result.tag = "err")
                => (peeked = 1 /\ result.err.kind \notin {"InvalidVersion", "UnknownMessageType"})
C10_Witness ==
    /\ pc = "failed" /\ input.root = "msg"
    /\ InHas("version") /\ InVal("version") = "4"
    /\ InHas("type") /\ InVal("type") = "notify" /\ InHas("foo")
    /\ InFirst # "none"
    /\ result.err = XmlAttributesError("ExtraAttributes", "") /\ peeked = 0
====
